---- MODULE Spec2Model ----
(***************************************************************************)
(* A model of scarecrow: the layer protocol (src/src/traits.rs), the four  *)
(* layer variants (src/src/layers.rs), the squared-error loss              *)
(* (src/src/loss.rs), the vector helpers (src/src/utils.rs) and the        *)
(* trainer SGDTrainer::train (src/src/sgd.rs).                             *)
(*                                                                         *)
(* Numbers.  An f32 is modelled by an integer and f32 arithmetic by exact   *)
(* integer arithmetic: rounding is not modelled, and train is followed     *)
(* only while the factors of its products stay within MaxAbs.  tanh and    *)
(* the logistic function are not integer valued; the model keeps their     *)
(* nearest integer (ties away from zero), see tanh and logistic below.     *)
(*                                                                         *)
(* Panics.  A Rust value that is either a Vec<f32> or a panic, and an      *)
(* Option<Vec<f32>> that may also panic while being computed, is the       *)
(* record [tag, val] with tag "Some", "None" or "Panic".                   *)
(***************************************************************************)
EXTENDS Integers, Sequences, FiniteSets, TLC

VARIABLES
    layers,     \* the LinkedList<Box<WeightedLayer>> handed to train / update
    rate,       \* SGDTrainer.rate
    epochs,     \* SGDTrainer.epochs
    inputs,     \* train's inputs buffer
    targets,    \* train's targets buffer
    pc,         \* position of the caller / of train
    epoch,      \* train: number of completed iterations of the epoch loop
    ex,         \* train: number of (x, t) pairs of this epoch already processed
    updates,    \* train: the epoch's LinkedList<LayerUpdates>
    calls,      \* number of train / update calls made so far
    entry,      \* history: layers as they were when train was called
    pre,        \* history: layers as they were when the current epoch began
    lay,        \* layer calls: the layer a single operation is called on
    op,         \* layer calls: the operation called last
    args,       \* layer calls: its arguments
    res,        \* layer calls: its result
    outputs,    \* train, one pair: the LinkedList<LayerOut> of the forward pass
    delta_signal, \* train, one pair: delta_signal
    visited,    \* history: the layers the backward loop of this pair has visited
    acc0        \* history: updates as they were when this pair began

vars == <<layers, rate, epochs, inputs, targets, pc, epoch, ex, updates,
          calls, entry, pre, lay, op, args, res,
          outputs, delta_signal, visited, acc0>>

trainVars == <<layers, rate, epochs, inputs, targets, pc, epoch, ex, updates,
               calls, entry, pre>>
callVars == <<lay, op, args, res>>
passVars == <<outputs, delta_signal, visited, acc0>>

----------------------------------------------------------------------------
(* Bounds of the model *)

MaxLayers == 2      \* longest chain
MaxWidth == 2       \* largest input / output width of a layer
MaxEpochs == 2      \* largest SGDTrainer.epochs
MaxBuf == 3         \* longest inputs / targets buffer
MaxAbs == 4096      \* largest factor of a product train is followed through
MaxCalls == 2       \* longest sequence of train / update calls

----------------------------------------------------------------------------
(* Results *)

(* A Vec<f32> holds its elements: Vec(s) is the sequence s, evaluated once *)
Vec(s) == s \o <<>>

Some(v) == [tag |-> "Some", val |-> Vec(v)]
None == [tag |-> "None", val |-> <<>>]
Panic == [tag |-> "Panic", val |-> <<>>]

Min(a, b) == IF a < b THEN a ELSE b

Zeros(n) == Vec([i \in 1..n |-> 0])

RECURSIVE SumSeq(_)
SumSeq(s) == IF s = <<>> THEN 0 ELSE Head(s) + SumSeq(Tail(s))

(* slice::chunks(c) for c > 0: consecutive chunks of c elements, the last   *)
(* one possibly shorter.  chunks(0) panics: every caller tests c = 0 first. *)
NumChunks(len, c) == (len + c - 1) \div c
Chunks(s, c) ==
    [k \in 1..NumChunks(Len(s), c) |->
        SubSeq(s, (k - 1) * c + 1, Min(k * c, Len(s)))]

----------------------------------------------------------------------------
(* utils.rs *)

dot(x, y) ==
    IF Len(x) # Len(y) THEN Panic
    ELSE Some(<<SumSeq([i \in 1..Len(x) |-> x[i] * y[i]])>>)

add_mut(x, y) ==
    IF Len(x) # Len(y) THEN Panic
    ELSE Some([i \in 1..Len(x) |-> x[i] + y[i]])

----------------------------------------------------------------------------
(* loss.rs, traits.rs: SquaredError and DifferentiableLossFunction::deriv *)

deriv1(pred, target) == 2 * (pred - target)

deriv(preds, ts) ==
    Vec([i \in 1..Min(Len(preds), Len(ts)) |-> deriv1(preds[i], ts[i])])

----------------------------------------------------------------------------
(* layers.rs: the layer variants.  A layer is the record                    *)
(*   [kind, n, m, weights, bias]                                            *)
(* where a DenseLayer has shape = (n, m) and an activation layer has        *)
(* size = n = m and no weights and no bias.                                 *)

Kinds == {"Dense", "Hyperbolic", "Sigmoid", "Rectified"}

DenseLayer(ws, bs, n, m) ==
    [kind |-> "Dense", n |-> n, m |-> m, weights |-> ws, bias |-> bs]

Activation(kind, size) ==
    [kind |-> kind, n |-> size, m |-> size, weights |-> <<>>, bias |-> <<>>]

input_count(l) == l.n
output_count(l) == l.m

weight_count(l) == IF l.kind = "Dense" THEN Len(l.weights) ELSE 0
neuron_count(l) == IF l.kind = "Dense" THEN output_count(l) ELSE 0

(* f32::tanh and 1 / (1 + exp(-x)), to the nearest integer *)
tanh(x) == IF x < 0 THEN -1 ELSE IF x = 0 THEN 0 ELSE 1
logistic(x) == IF x < 0 THEN 0 ELSE 1

(* The weights cut into chunks of shape.1 instead of shape.0 *)
DenseOutputByNeurons(l, xs) ==
    IF l.n # Len(xs) THEN Panic
    ELSE IF l.m = 0 THEN Panic
    ELSE LET nw == Chunks(l.weights, l.m)
         IN  IF \E i \in 1..Len(nw) :
                    dot(nw[i], xs).tag = "Panic" \/ i > Len(l.bias)
             THEN Panic
             ELSE Some([i \in 1..Len(nw) |-> dot(nw[i], xs).val[1] + l.bias[i]])

DenseOutput(l, xs) ==
    IF l.n # Len(xs) THEN Panic
    ELSE IF l.n = 0 THEN Panic
    ELSE LET nw == Chunks(l.weights, l.n)
         IN  IF \E i \in 1..Len(nw) :
                    dot(nw[i], xs).tag = "Panic" \/ i > Len(l.bias)
             THEN Panic
             ELSE Some([i \in 1..Len(nw) |-> dot(nw[i], xs).val[1] + l.bias[i]])

HyperbolicOutput(l, xs) == Some([i \in 1..Len(xs) |-> tanh(xs[i])])

SigmoidOutput(l, xs) == Some([i \in 1..Len(xs) |-> logistic(xs[i])])

RectifiedOutput(l, xs) ==
    Some([i \in 1..Len(xs) |-> IF xs[i] < 0 THEN 0 ELSE xs[i]])

output(l, xs) ==
    CASE l.kind = "Dense" -> DenseOutput(l, xs)
      [] l.kind = "Hyperbolic" -> HyperbolicOutput(l, xs)
      [] l.kind = "Sigmoid" -> SigmoidOutput(l, xs)
      [] l.kind = "Rectified" -> RectifiedOutput(l, xs)

(* The derivative with respect to the weights mixed into the propagation *)
DenseDeltaTimesInputs(l, delta, xs) ==
    IF l.n # Len(xs) \/ l.m # Len(delta) THEN Panic
    ELSE IF l.n = 0 THEN Panic
    ELSE LET nw == Chunks(l.weights, l.n)
             used == Min(Len(delta), Len(nw))
         IN  Some([i \in 1..l.n |->
                    SumSeq([k \in 1..used |->
                        IF i <= Len(nw[k]) THEN delta[k] * nw[k][i] * xs[i] ELSE 0])])

DenseDeltaFromInputs(l, delta, xs) ==
    IF l.n # Len(xs) \/ l.m # Len(delta) THEN Panic
    ELSE IF l.n = 0 THEN Panic
    ELSE LET nw == Chunks(l.weights, l.n)
             used == Min(Len(delta), Len(nw))
         IN  Some([i \in 1..l.n |->
                    SumSeq([k \in 1..used |->
                        IF i <= Len(nw[k]) THEN delta[k] * nw[k][i] ELSE 0])])

RectifiedDeltaFromInputs(l, delta, xs) ==
    IF l.n # Len(xs) \/ l.n # Len(delta) THEN Panic
    ELSE Some([i \in 1..Len(delta) |-> delta[i] * logistic(xs[i])])

HyperbolicDeltaFromOutputs(l, delta, ys) ==
    IF l.n # Len(ys) \/ l.n # Len(delta) THEN Panic
    ELSE Some([i \in 1..l.n |-> delta[i] * (1 - ys[i] * ys[i])])

SigmoidDeltaFromOutputs(l, delta, ys) ==
    IF l.n # Len(ys) \/ l.n # Len(delta) THEN Panic
    ELSE Some([i \in 1..l.n |-> delta[i] * (ys[i] * (1 - ys[i]))])

delta_from_outputs(l, delta, ys) ==
    CASE l.kind = "Hyperbolic" -> HyperbolicDeltaFromOutputs(l, delta, ys)
      [] l.kind = "Sigmoid" -> SigmoidDeltaFromOutputs(l, delta, ys)
      [] OTHER -> None

delta_from_inputs(l, delta, xs) ==
    CASE l.kind = "Dense" -> DenseDeltaFromInputs(l, delta, xs)
      [] l.kind = "Rectified" -> RectifiedDeltaFromInputs(l, delta, xs)
      [] OTHER -> None

(* traits.rs, Layer::delta:                                                 *)
(*   self.delta_from_outputs(..).or(self.delta_from_inputs(..)).unwrap()    *)
(* Option::or takes its argument by value: both operations are called,     *)
(* delta_from_outputs first, before the two results are combined.           *)
LayerDelta(fromOutputs, fromInputs) ==
    IF fromOutputs.tag = "Panic" THEN Panic
    ELSE IF fromInputs.tag = "Panic" THEN Panic
    ELSE IF fromOutputs.tag = "Some" THEN fromOutputs
    ELSE IF fromInputs.tag = "Some" THEN fromInputs
    ELSE Panic

delta(l, d, xs, ys) ==
    LayerDelta(delta_from_outputs(l, d, ys), delta_from_inputs(l, d, xs))

DenseDerivw(l, xs) ==
    IF l.n # Len(xs) THEN Panic
    ELSE Some([i \in 1..(l.m * Len(xs)) |-> xs[((i - 1) % Len(xs)) + 1]])

derivw(l, xs) == IF l.kind = "Dense" THEN DenseDerivw(l, xs) ELSE None

----------------------------------------------------------------------------
(* traits.rs: WeightedLayer::update.  weights_mut / bias_mut are Some for a *)
(* DenseLayer and None for the activation layers; zip stops at the shorter  *)
(* of the buffer and the deltas.                                            *)

(* Deltas beyond the end of the buffer appended to it *)
ZipAddExtend(buf, deltas) ==
    [i \in 1..(IF Len(deltas) > Len(buf) THEN Len(deltas) ELSE Len(buf)) |->
        IF i > Len(buf) THEN deltas[i]
        ELSE IF i <= Len(deltas) THEN buf[i] + deltas[i] ELSE buf[i]]

ZipAdd(buf, deltas) ==
    Vec([i \in 1..Len(buf) |-> IF i <= Len(deltas) THEN buf[i] + deltas[i] ELSE buf[i]])

update(l, weight_updates, bias_updates) ==
    IF l.kind = "Dense"
    THEN [l EXCEPT !.weights = ZipAdd(l.weights, weight_updates),
                   !.bias = ZipAdd(l.bias, bias_updates)]
    ELSE l

----------------------------------------------------------------------------
(* sgd.rs: SGDTrainer *)

(* The neuron of weight i taken as i % input_count *)
weight_step_mod(r, l, xs, d) ==
    LET step == Zeros(weight_count(l))
        derivs == derivw(l, xs)
    IN  IF derivs.tag = "Panic" THEN Panic
        ELSE IF derivs.tag = "None" THEN Some(step)
        ELSE IF Len(derivs.val) # Len(step) \/ Len(d) # neuron_count(l) THEN Panic
        ELSE IF Len(step) > 0 /\ input_count(l) = 0 THEN Panic
        ELSE IF \E i \in 1..Len(step) : ((i - 1) % input_count(l)) + 1 > Len(d) THEN Panic
        ELSE Some([i \in 1..Len(step) |->
                0 - r * d[((i - 1) % input_count(l)) + 1] * derivs.val[i]])

weight_step(r, l, xs, d) ==
    LET step == Zeros(weight_count(l))
        derivs == derivw(l, xs)
    IN  IF derivs.tag = "Panic" THEN Panic
        ELSE IF derivs.tag = "None" THEN Some(step)
        ELSE IF Len(derivs.val) # Len(step) \/ Len(d) # neuron_count(l) THEN Panic
        ELSE IF Len(step) > 0 /\ input_count(l) = 0 THEN Panic
        ELSE Some([i \in 1..Len(step) |->
                0 - r * d[((i - 1) \div input_count(l)) + 1] * derivs.val[i]])

bias_step(r, l, d) ==
    Vec([k \in 1..neuron_count(l) |-> IF k <= Len(d) THEN 0 - r * d[k] ELSE 0])

(* train is followed only while the factors of every product are within    *)
(* MaxAbs: Fits says so of a vector.                                        *)
Fits(s) == \A i \in 1..Len(s) : -MaxAbs <= s[i] /\ s[i] <= MaxAbs

OutOfRange == [tag |-> "Range", val |-> <<>>]

(* train, lines 69-77: the forward pass; the LayerOut of layers i.. given   *)
(* the input cur of layer i.                                                *)
RECURSIVE Forward(_, _, _)
Forward(ls, i, cur) ==
    IF i > Len(ls) THEN Some(<<>>)
    ELSE IF ~(Fits(cur) /\ Fits(ls[i].weights) /\ Fits(ls[i].bias)) THEN OutOfRange
    ELSE LET out == output(ls[i], cur)
         IN  IF out.tag = "Panic" THEN Panic
             ELSE LET rest == Forward(ls, i + 1, out.val)
                  IN  IF rest.tag # "Some" THEN rest
                      ELSE Some(<<[inputs |-> cur, output |-> out.val]>> \o rest.val)

(* train, lines 87-98: the backward pass from layer i down to the first,    *)
(* delta_signal being d on arrival at layer i.                              *)
RECURSIVE Backward(_, _, _, _, _, _)
Backward(r, ls, outs, ups, i, d) ==
    IF i = 0 THEN Some(ups)
    ELSE IF ~(Fits(d) /\ Fits(outs[i].output)) THEN OutOfRange
    ELSE LET ws == weight_step(r, ls[i], outs[i].inputs, d)
             aw == add_mut(ups[i].ws, ws.val)
             bs == bias_step(r, ls[i], d)
             ab == add_mut(ups[i].bs, bs)
             nd == delta(ls[i], d, outs[i].inputs, outs[i].output)
         IN  IF ws.tag = "Panic" THEN Panic
             ELSE IF aw.tag = "Panic" THEN Panic
             ELSE IF ab.tag = "Panic" THEN Panic
             ELSE IF nd.tag = "Panic" THEN Panic
             ELSE Backward(r, ls, outs,
                           [ups EXCEPT ![i] = [ws |-> aw.val, bs |-> ab.val]],
                           i - 1, nd.val)

(* train, lines 68-98: one (x, t) pair: the accumulators after it, or Panic *)
ProcessExample(r, ls, ups, x, t) ==
    LET outs == Forward(ls, 1, x)
    IN  IF outs.tag # "Some" THEN outs
        ELSE IF outs.val = <<>> THEN Panic
        ELSE Backward(r, ls, outs.val, ups, Len(ls),
                      deriv(outs.val[Len(outs.val)].output, t))

----------------------------------------------------------------------------
(* The networks and the data a caller hands over *)

(* DenseLayer { weights, bias, shape } as in layers.rs' tests: the fields   *)
(* are public, the values are the caller's.                                 *)
InitWeight(i) == IF i % 3 = 1 THEN 1 ELSE IF i % 3 = 2 THEN -1 ELSE 2
InitBias(k) == k % 2

DenseNew(n, m) ==
    DenseLayer([i \in 1..(n * m) |-> InitWeight(i)], [k \in 1..m |-> InitBias(k)], n, m)

LayerChoices ==
    {DenseNew(n, m) : n \in 0..MaxWidth, m \in 0..MaxWidth}
    \cup {Activation(k, s) : k \in Kinds \ {"Dense"}, s \in 0..MaxWidth}

RECURSIVE ChainsOf(_)
ChainsOf(len) ==
    IF len = 0 THEN {<<>>}
    ELSE {Append(c, l) : c \in ChainsOf(len - 1), l \in LayerChoices}

Networks == UNION {ChainsOf(len) : len \in 0..MaxLayers}

InValue(i) == IF i % 3 = 1 THEN 1 ELSE IF i % 3 = 2 THEN 0 ELSE -1
TargetValue(i) == IF i % 2 = 1 THEN 0 ELSE 1

InputBuffers == {[i \in 1..len |-> InValue(i)] : len \in 0..MaxBuf}
TargetBuffers == {[i \in 1..len |-> TargetValue(i)] : len \in 0..MaxBuf}

Rates == {2}

----------------------------------------------------------------------------
(* SGDTrainer::train, step by step *)

(* lines 56-57 *)
InputCount == IF layers = <<>> THEN 0 ELSE input_count(layers[1])
OutputCount == IF layers = <<>> THEN 0 ELSE output_count(layers[Len(layers)])

(* line 67: the pairs inputs.chunks(..).zip(targets.chunks(..)) yields *)
NumPairs ==
    Min(NumChunks(Len(inputs), InputCount), NumChunks(Len(targets), OutputCount))

(* A loop that tests its bound after the body *)
LoopAtLeastOnce == epoch = 0 \/ epoch < epochs

(* line 59: for _ in 0..self.epochs *)
LoopContinues == epoch < epochs

(* lines 60-65 *)
NewUpdates ==
    [i \in 1..Len(layers) |->
        [ws |-> Zeros(weight_count(layers[i])), bs |-> Zeros(neuron_count(layers[i]))]]

(* lines 102-104 *)
ApplyUpdates(ls, ups) ==
    [i \in 1..Len(ls) |->
        IF i <= Len(ups) THEN update(ls[i], ups[i].ws, ups[i].bs) ELSE ls[i]]

TrainStart(Epochs, Inputs, Targets) ==
    /\ pc = "idle"
    /\ \E e \in Epochs, xs \in Inputs, ts \in Targets :
          /\ epochs' = e
          /\ inputs' = xs
          /\ targets' = ts
    /\ pc' = "epoch"
    /\ epoch' = 0
    /\ ex' = 0
    /\ calls' = calls + 1
    /\ entry' = layers
    /\ pre' = layers
    /\ UNCHANGED <<layers, rate, updates>>
    /\ UNCHANGED callVars
    /\ UNCHANGED passVars

TrainCall == TrainStart(0..MaxEpochs, InputBuffers, TargetBuffers)

EpochBegin ==
    /\ pc = "epoch"
    /\ LoopContinues
    /\ pre' = layers
    /\ ex' = 0
    /\ IF InputCount = 0 \/ OutputCount = 0
       THEN pc' = "aborted" /\ updates' = <<>>
       ELSE pc' = "examples" /\ updates' = NewUpdates
    /\ UNCHANGED <<layers, rate, epochs, inputs, targets, epoch, calls, entry>>
    /\ UNCHANGED callVars
    /\ UNCHANGED passVars

(* Per-example descent: the step of every pair is applied at once *)
ExamplePerPair ==
    /\ pc = "examples"
    /\ ex < NumPairs
    /\ LET x == Chunks(inputs, InputCount)[ex + 1]
           t == Chunks(targets, OutputCount)[ex + 1]
           r == ProcessExample(rate, layers, updates, x, t)
       IN  /\ r.tag # "Range"
           /\ IF r.tag = "Panic"
              THEN pc' = "aborted" /\ updates' = <<>> /\ ex' = ex /\ layers' = layers
              ELSE /\ pc' = "examples" /\ updates' = NewUpdates /\ ex' = ex + 1
                   /\ layers' = ApplyUpdates(layers, r.val)
    /\ UNCHANGED <<rate, epochs, inputs, targets, epoch, calls, entry, pre>>
    /\ UNCHANGED callVars
    /\ UNCHANGED passVars

(* The steps of the pairs before the failing one applied when train aborts *)
ExampleAbortFlushes ==
    /\ pc = "examples"
    /\ ex < NumPairs
    /\ LET x == Chunks(inputs, InputCount)[ex + 1]
           t == Chunks(targets, OutputCount)[ex + 1]
           r == ProcessExample(rate, layers, updates, x, t)
       IN  /\ r.tag # "Range"
           /\ IF r.tag = "Panic"
              THEN /\ pc' = "aborted" /\ updates' = <<>> /\ ex' = ex
                   /\ layers' = ApplyUpdates(layers, updates)
              ELSE /\ pc' = "examples" /\ updates' = r.val /\ ex' = ex + 1
                   /\ layers' = layers
    /\ UNCHANGED <<rate, epochs, inputs, targets, epoch, calls, entry, pre>>
    /\ UNCHANGED callVars
    /\ UNCHANGED passVars

Example ==
    /\ pc = "examples"
    /\ ex < NumPairs
    /\ LET x == Chunks(inputs, InputCount)[ex + 1]
           t == Chunks(targets, OutputCount)[ex + 1]
           r == ProcessExample(rate, layers, updates, x, t)
       IN  /\ r.tag # "Range"
           /\ IF r.tag = "Panic"
              THEN pc' = "aborted" /\ updates' = <<>> /\ ex' = ex
              ELSE pc' = "examples" /\ updates' = r.val /\ ex' = ex + 1
    /\ UNCHANGED <<layers, rate, epochs, inputs, targets, epoch, calls, entry, pre>>
    /\ UNCHANGED callVars
    /\ UNCHANGED passVars

EpochUpdate ==
    /\ pc = "examples"
    /\ ex = NumPairs
    /\ layers' = ApplyUpdates(layers, updates)
    /\ updates' = <<>>
    /\ epoch' = epoch + 1
    /\ pc' = "epoch"
    /\ UNCHANGED <<rate, epochs, inputs, targets, ex, calls, entry, pre>>
    /\ UNCHANGED callVars
    /\ UNCHANGED passVars

TrainReturn ==
    /\ pc = "epoch"
    /\ ~LoopContinues
    /\ pc' = "done"
    /\ UNCHANGED <<layers, rate, epochs, inputs, targets, epoch, ex, updates,
                   calls, entry, pre>>
    /\ UNCHANGED callVars
    /\ UNCHANGED passVars

NoCall == lay = <<>> /\ op = "none" /\ args = <<>> /\ res = None

NoPass == outputs = <<>> /\ delta_signal = <<>> /\ visited = <<>> /\ acc0 = <<>>

Init ==
    /\ layers \in Networks
    /\ rate \in Rates
    /\ epochs = 0
    /\ inputs = <<>>
    /\ targets = <<>>
    /\ pc = "idle"
    /\ epoch = 0
    /\ ex = 0
    /\ updates = <<>>
    /\ calls = 0
    /\ entry = layers
    /\ pre = layers
    /\ NoCall
    /\ NoPass

Next ==
    \/ TrainCall
    \/ EpochBegin
    \/ Example
    \/ EpochUpdate
    \/ TrainReturn

Spec == Init /\ [][Next]_vars

----------------------------------------------------------------------------
(* Vocabulary of the claims about train *)

ExampleInput(e) == Chunks(inputs, InputCount)[e]
ExampleTarget(e) == Chunks(targets, OutputCount)[e]

(* The forward input of layer i of chain ls for the raw example x *)
RECURSIVE InputOf(_, _, _)
InputOf(ls, i, x) ==
    IF i = 1 THEN x ELSE output(ls[i - 1], InputOf(ls, i - 1, x)).val

OutputOf(ls, i, x) == output(ls[i], InputOf(ls, i, x)).val

(* The delta signal arriving at the outputs of layer i for the pair (x, t) *)
RECURSIVE DeltaAt(_, _, _, _)
DeltaAt(ls, i, x, t) ==
    IF i = Len(ls) THEN deriv(OutputOf(ls, i, x), t)
    ELSE delta(ls[i + 1], DeltaAt(ls, i + 1, x, t),
               InputOf(ls, i + 1, x), OutputOf(ls, i + 1, x)).val

RECURSIVE SumOver(_, _)
SumOver(f, n) == IF n = 0 THEN 0 ELSE f[n] + SumOver(f, n - 1)

Nonzero(s) == \E i \in 1..Len(s) : s[i] # 0

(* C1: train is full-batch per epoch.  While the examples of an epoch are   *)
(* processed the layers are the ones the epoch began with; the layers       *)
(* change in no step of train other than the one that ends an epoch, which  *)
(* follows the last example and calls update once on every layer with its   *)
(* accumulator.                                                             *)
C1_FullBatch ==
    /\ [](pc = "examples" => layers = pre)
    /\ [][/\ (pc = "examples" /\ ex < NumPairs) => layers' = layers
          /\ (pc # "idle" /\ layers' # layers) =>
                (pc = "examples" /\ ex = NumPairs /\ epoch' = epoch + 1)
          /\ (pc # "idle" /\ epoch' = epoch + 1) =>
                /\ pc = "examples" /\ ex = NumPairs
                /\ layers' = [i \in 1..Len(layers) |->
                        update(layers[i], updates[i].ws, updates[i].bs)]]_vars

C1_Witness ==
    /\ pc = "examples"
    /\ epoch = 1
    /\ ex = 2
    /\ layers # entry
    /\ \E i \in 1..Len(updates) : Nonzero(updates[i].ws)

(* C2: after an epoch that train completed, every weight and bias of every *)
(* Dense layer is its value before the epoch plus the sum, over the pairs   *)
(* of the epoch, of -(rate * delta[i div n] * layer_input[i mod n]), resp.  *)
(* -(rate * delta[k]), all computed with the parameters the epoch began     *)
(* with.                                                                    *)
C2_EpochUpdate ==
    (pc = "epoch" /\ epoch > 0) =>
        \A i \in 1..Len(layers) :
            layers[i].kind = "Dense" =>
                LET n == pre[i].n
                    d == Vec([e \in 1..NumPairs |->
                            DeltaAt(pre, i, ExampleInput(e), ExampleTarget(e))])
                    xin == Vec([e \in 1..NumPairs |->
                            InputOf(pre, i, ExampleInput(e))])
                IN  /\ \A j \in 1..Len(pre[i].weights) :
                          layers[i].weights[j] = pre[i].weights[j] +
                              SumOver([e \in 1..NumPairs |->
                                  0 - (rate * d[e][((j - 1) \div n) + 1]
                                            * xin[e][((j - 1) % n) + 1])],
                                  NumPairs)
                    /\ \A k \in 1..Len(pre[i].bias) :
                          layers[i].bias[k] = pre[i].bias[k] +
                              SumOver([e \in 1..NumPairs |-> 0 - (rate * d[e][k])],
                                      NumPairs)

C2_Witness ==
    /\ pc = "epoch"
    /\ epoch = 1
    /\ NumPairs = 2
    /\ Len(layers) = 2
    /\ layers[1].kind = "Dense" /\ layers[1].m = 2
    /\ layers[2].kind = "Dense" /\ layers[2].n = 2
    /\ layers[1].weights # pre[1].weights
    /\ layers[2].bias # pre[2].bias

(* C3: train with epochs = 0 changes no layer and returns: it is never      *)
(* aborted, its only step is the return, whatever the chain and the         *)
(* buffers.                                                                 *)
C3_ZeroEpochs ==
    /\ []((pc # "idle" /\ epochs = 0) => (pc \in {"epoch", "done"} /\ layers = entry))
    /\ [][(pc = "epoch" /\ epochs = 0) => (pc' = "done" /\ layers' = layers)]_vars

C3_Witness ==
    /\ pc = "done"
    /\ epochs = 0
    /\ Len(layers) = 2
    /\ layers[1].kind = "Dense" /\ layers[1].n = 2 /\ layers[1].m = 2
    /\ layers[1].m # layers[2].n
    /\ Len(inputs) = 3
    /\ Len(targets) = 1

(* C5: train with epochs >= 1 never completes when the two buffers hold     *)
(* different numbers of whole examples.                                     *)
WholeExamples ==
    /\ InputCount > 0 /\ OutputCount > 0
    /\ Len(inputs) % InputCount = 0
    /\ Len(targets) % OutputCount = 0

C5_MismatchAborts ==
    ~(/\ pc = "done"
      /\ epochs >= 1
      /\ WholeExamples
      /\ Len(inputs) \div InputCount # Len(targets) \div OutputCount)

(* C6: train with epochs >= 1 that processes at least one example never     *)
(* completes when two adjacent layers disagree on their width, or the       *)
(* inputs end in a chunk shorter than the first layer's input width, or     *)
(* the targets end in a chunk shorter than the last layer's output width.   *)
ChainMismatch == \E i \in 1..(Len(layers) - 1) : layers[i].m # layers[i + 1].n

TrailingInput == InputCount > 0 /\ Len(inputs) % InputCount # 0
TrailingTarget == OutputCount > 0 /\ Len(targets) % OutputCount # 0

C6_MismatchAborts ==
    (pc = "done" /\ epochs >= 1 /\ NumPairs >= 1) =>
        ~(ChainMismatch \/ TrailingInput \/ TrailingTarget)

(* What does hold of a completed train that processed an example: the chain *)
(* is consistent and every chunk that zip paired is a whole one.  A short   *)
(* trailing chunk is tolerated exactly when zip never pairs it.             *)
C6_ProcessedOnly ==
    (pc = "done" /\ epochs >= 1 /\ NumPairs >= 1) =>
        /\ ~ChainMismatch
        /\ \A e \in 1..NumPairs :
              /\ Len(ExampleInput(e)) = InputCount
              /\ Len(ExampleTarget(e)) = OutputCount

----------------------------------------------------------------------------
(* Single calls of the layer operations *)

(* layers.rs, tests: the DenseLayer of dense_output and                     *)
(* dense_delta_from_inputs, its weights and its bias times 10               *)
TestDense == DenseLayer(<<5, 20, -10, 5, 20, 30>>, <<1, 2, 3>>, 2, 3)

WeightValue(seed, i) == ((i * (seed + 2) + seed) % 5) - 2

DenseWith(seed, n, m) ==
    DenseLayer([i \in 1..(n * m) |-> WeightValue(seed, i)],
               [k \in 1..m |-> WeightValue(seed + 1, k)], n, m)

Seeds == {0, 1}

CallLayers ==
    {DenseWith(sd, n, m) : sd \in Seeds, n \in 0..MaxWidth, m \in 0..MaxWidth}
    \cup {Activation(k, sz) : k \in Kinds \ {"Dense"}, sz \in 0..MaxWidth}
    \cup {TestDense}

ArgValue(seed, i) == ((i * (seed + 1) + 2 * seed) % 4) - 1

(* layers.rs, tests: the arguments of dense_output and                      *)
(* dense_delta_from_inputs                                                  *)
TestVectors == {<<1, -1>>, <<1, 1, 1>>, <<1, 2>>}

Vectors ==
    {[i \in 1..len |-> ArgValue(sd, i)] : len \in 0..(MaxWidth + 1), sd \in Seeds}
    \cup TestVectors

(* What a Layer's delta_from_outputs / delta_from_inputs may answer: absent, *)
(* a vector, or a panic on one of its assertions.                           *)
SlotResults == {None, Panic} \cup {Some(v) : v \in Vectors}

Called(name, as, r) ==
    /\ op' = name
    /\ args' = as
    /\ res' = r
    /\ UNCHANGED lay
    /\ UNCHANGED trainVars
    /\ UNCHANGED passVars

CallOutput ==
    /\ op = "none"
    /\ \E xs \in Vectors : Called("output", <<xs>>, output(lay, xs))

CallDeltaFromInputs ==
    /\ op = "none"
    /\ \E d \in Vectors, xs \in Vectors :
          Called("delta_from_inputs", <<d, xs>>, delta_from_inputs(lay, d, xs))

CallDeltaFromOutputs ==
    /\ op = "none"
    /\ \E d \in Vectors, ys \in Vectors :
          Called("delta_from_outputs", <<d, ys>>, delta_from_outputs(lay, d, ys))

CallDerivw ==
    /\ op = "none"
    /\ \E xs \in Vectors : Called("derivw", <<xs>>, derivw(lay, xs))

(* Layer::delta on one of the four variants *)
CallDelta ==
    /\ op = "none"
    /\ \E d \in Vectors, xs \in Vectors, ys \in Vectors :
          Called("delta", <<d, xs, ys>>, delta(lay, d, xs, ys))

(* Layer::delta, the default method, on any implementation of the trait:    *)
(* args are the answers of its delta_from_outputs and delta_from_inputs.    *)
CallLayerDelta ==
    /\ op = "none"
    /\ \E fo \in SlotResults, fi \in SlotResults :
          Called("Layer::delta", <<fo, fi>>, LayerDelta(fo, fi))

InitLayer ==
    /\ lay \in CallLayers
    /\ op = "none"
    /\ args = <<>>
    /\ res = None
    /\ layers = <<>>
    /\ rate \in Rates
    /\ epochs = 0
    /\ inputs = <<>>
    /\ targets = <<>>
    /\ pc = "idle"
    /\ epoch = 0
    /\ ex = 0
    /\ updates = <<>>
    /\ NoPass
    /\ calls = 0
    /\ entry = <<>>
    /\ pre = <<>>

NextLayer ==
    \/ CallOutput
    \/ CallDeltaFromInputs
    \/ CallDeltaFromOutputs
    \/ CallDerivw
    \/ CallDelta
    \/ CallLayerDelta

SpecLayer == InitLayer /\ [][NextLayer]_vars

DenseBuffers(l) == Len(l.weights) = l.n * l.m /\ Len(l.bias) = l.m

(* C4: output called with inputs.len() # input_count() panics, whatever the *)
(* variant.                                                                 *)
C4_OutputChecksWidth ==
    (op = "output" /\ Len(args[1]) # input_count(lay)) => res.tag = "Panic"

C7_WhenNoPanic ==
    (op = "Layer::delta" /\ args[1].tag # "Panic" /\ args[2].tag # "Panic") =>
        /\ args[1].tag = "Some" => res = args[1]
        /\ (args[1].tag = "None" /\ args[2].tag = "Some") => res = args[2]
        /\ (args[1].tag = "None" /\ args[2].tag = "None") => res = Panic

(* The affine form of a Dense layer's output *)
DenseAffine(l, x) ==
    [k \in 1..l.m |->
        SumOver([j \in 1..l.n |-> l.weights[(k - 1) * l.n + j] * x[j]], l.n) + l.bias[k]]

DenseOutputCase ==
    /\ op = "output"
    /\ lay.kind = "Dense"
    /\ DenseBuffers(lay)
    /\ Len(args[1]) = lay.n

(* C8 as claimed: for every shape (n, m) and x of length n, output(x) has   *)
(* length m and its k-th element is dot(weights[k*n .. (k+1)*n], x) +       *)
(* bias[k].                                                                 *)
C8_DenseOutputAnyShape ==
    DenseOutputCase =>
        /\ res.tag = "Some"
        /\ Len(res.val) = lay.m
        /\ res.val = DenseAffine(lay, args[1])

(* C8 amended: the same for every shape with n >= 1 *)
C8_DenseOutput ==
    (DenseOutputCase /\ lay.n >= 1) =>
        /\ res.tag = "Some"
        /\ Len(res.val) = lay.m
        /\ res.val = DenseAffine(lay, args[1])

C8_Witness ==
    /\ DenseOutputCase
    /\ lay = TestDense
    /\ args[1] = <<1, -1>>
    /\ res = Some(<<-14, -13, -7>>)

(* The transpose-matrix-vector product *)
DenseTranspose(l, d) ==
    [i \in 1..l.n |->
        SumOver([k \in 1..l.m |-> d[k] * l.weights[(k - 1) * l.n + i]], l.m)]

DenseDeltaCase ==
    /\ op = "delta_from_inputs"
    /\ lay.kind = "Dense"
    /\ DenseBuffers(lay)
    /\ Len(args[1]) = lay.m
    /\ Len(args[2]) = lay.n

(* C9 as claimed: for every shape (n, m), delta_from_inputs answers the     *)
(* vector of length n whose i-th element is the sum over k of               *)
(* delta[k] * weights[k*n + i], whatever the inputs' values and the bias.   *)
C9_DenseDeltaAnyShape ==
    DenseDeltaCase => res = Some(DenseTranspose(lay, args[1]))

(* C9 amended: the same for every shape with n >= 1 *)
C9_DenseDelta ==
    (DenseDeltaCase /\ lay.n >= 1) =>
        /\ res = Some(DenseTranspose(lay, args[1]))
        /\ Len(res.val) = input_count(lay)

C9_Witness ==
    /\ DenseDeltaCase
    /\ lay = TestDense
    /\ args[1] = <<1, 1, 1>>
    /\ args[2] = <<1, 2>>
    /\ res = Some(<<15, 55>>)

----------------------------------------------------------------------------
(* Sequences of train and update calls on one network *)

SeqNetworks ==
    {<<DenseNew(1, 2), Activation(k, 2)>> : k \in Kinds \ {"Dense"}}
    \cup {<<DenseNew(1, 2), DenseNew(2, 1)>>,
          <<Activation("Rectified", 1), DenseNew(1, 1)>>,
          <<DenseNew(1, 2), Activation("Hyperbolic", 1)>>}

SeqEpochs == {0, 1, 2}
SeqInputs == {<<1, 0>>, <<1>>}
SeqTargets == {<<0, 1>>, <<1, 0, 1>>}

(* The delta buffers handed to update: shorter than, as long as and longer  *)
(* than the buffers of the layers of SeqNetworks                            *)
DeltaBuffers == {[i \in 1..len |-> i] : len \in 0..3}

TrainCallSeq ==
    /\ calls < MaxCalls
    /\ TrainStart(SeqEpochs, SeqInputs, SeqTargets)

(* train returned to its caller *)
Returned ==
    /\ pc = "done"
    /\ pc' = "idle"
    /\ UNCHANGED <<layers, rate, epochs, inputs, targets, epoch, ex, updates,
                   calls, entry, pre>>
    /\ UNCHANGED callVars
    /\ UNCHANGED passVars

(* The caller's own l.update(weight_updates, bias_updates) on a layer *)
UpdateCall ==
    /\ pc = "idle"
    /\ calls < MaxCalls
    /\ \E i \in 1..Len(layers), wu \in DeltaBuffers, bu \in DeltaBuffers :
          layers' = [layers EXCEPT ![i] = update(layers[i], wu, bu)]
    /\ calls' = calls + 1
    /\ UNCHANGED <<rate, epochs, inputs, targets, pc, epoch, ex, updates, entry, pre>>
    /\ UNCHANGED callVars
    /\ UNCHANGED passVars

InitSeq ==
    /\ layers \in SeqNetworks
    /\ rate \in Rates
    /\ epochs = 0
    /\ inputs = <<>>
    /\ targets = <<>>
    /\ pc = "idle"
    /\ epoch = 0
    /\ ex = 0
    /\ updates = <<>>
    /\ calls = 0
    /\ entry = layers
    /\ pre = layers
    /\ NoCall
    /\ NoPass

NextSeq ==
    \/ TrainCallSeq
    \/ EpochBegin
    \/ Example
    \/ EpochUpdate
    \/ TrainReturn
    \/ Returned
    \/ UpdateCall

SpecSeq == InitSeq /\ [][NextSeq]_vars

ShapeOf(ls) == [i \in 1..Len(ls) |-> <<ls[i].kind, ls[i].n, ls[i].m>>]

(* C10: no step of train and no update call changes the number, the order,  *)
(* the kinds or the widths of the layers, or an activation layer; and every *)
(* Dense layer keeps weights.len() = inputs * neurons and bias.len() =      *)
(* neurons.                                                                 *)
C10_TopologyKept ==
    /\ [](\A i \in 1..Len(layers) : layers[i].kind = "Dense" => DenseBuffers(layers[i]))
    /\ [][/\ ShapeOf(layers') = ShapeOf(layers)
          /\ \A i \in 1..Len(layers) :
                layers[i].kind # "Dense" => layers'[i] = layers[i]]_vars

C10_Witness ==
    /\ pc = "done"
    /\ calls = 2
    /\ epoch = 2
    /\ layers # entry
    /\ \E i \in 1..Len(layers) : layers[i].kind = "Dense" /\ entry[i] # layers[i]
    /\ \E i \in 1..Len(layers) : layers[i].kind # "Dense"

----------------------------------------------------------------------------
(* C13: a train call that aborts leaves every layer as it was when train    *)
(* was called, and it aborts in its first epoch, before any update: an      *)
(* aborted train has epochs >= 1, has completed no epoch and its layers are *)
(* the ones it was entered with.                                            *)
C13_AbortKeepsParameters ==
    pc = "aborted" => (epochs >= 1 /\ epoch = 0 /\ layers = entry /\ layers = pre)

(* An abort in the second pair of a two-epoch call on a Dense layer whose   *)
(* first pair went through                                                  *)
C13_Witness ==
    /\ pc = "aborted"
    /\ epochs = 2
    /\ ex = 1
    /\ Len(layers) >= 1
    /\ layers[1].kind = "Dense" /\ layers[1].n = 2 /\ layers[1].m >= 1
    /\ Len(inputs) = 3

----------------------------------------------------------------------------
(* SGDTrainer::train with the forward and the backward pass of every pair   *)
(* taken one layer at a time (sgd.rs, lines 67-99)                          *)

TrainCallPass == TrainStart(1..MaxEpochs, InputBuffers, TargetBuffers)

(* line 67-68: the next pair (x, t); the list of LayerOut is new *)
PairBegin ==
    /\ pc = "examples"
    /\ ex < NumPairs
    /\ pc' = "forward"
    /\ outputs' = <<>>
    /\ delta_signal' = <<>>
    /\ visited' = <<>>
    /\ acc0' = updates
    /\ UNCHANGED <<layers, rate, epochs, inputs, targets, epoch, ex, updates, calls,
                   entry, pre>>
    /\ UNCHANGED callVars

(* lines 70-77: one iteration of the forward loop *)
ForwardStep ==
    /\ pc = "forward"
    /\ Len(outputs) < Len(layers)
    /\ LET i == Len(outputs) + 1
           cur == IF outputs = <<>> THEN Chunks(inputs, InputCount)[ex + 1]
                  ELSE outputs[Len(outputs)].output
           out == output(layers[i], cur)
       IN  /\ Fits(cur) /\ Fits(layers[i].weights) /\ Fits(layers[i].bias)
           /\ IF out.tag = "Panic"
              THEN pc' = "aborted" /\ updates' = <<>> /\ outputs' = outputs
              ELSE /\ pc' = "forward" /\ updates' = updates
                   /\ outputs' = Append(outputs, [inputs |-> cur, output |-> out.val])
    /\ UNCHANGED <<layers, rate, epochs, inputs, targets, epoch, ex, calls, entry, pre>>
    /\ UNCHANGED <<delta_signal, visited, acc0>>
    /\ UNCHANGED callVars

(* lines 80-84: delta_signal = loss.deriv(y, t), y the last LayerOut's      *)
(* output; unwrap panics when there is none.                                *)
ErrorDeriv ==
    /\ pc = "forward"
    /\ Len(outputs) = Len(layers)
    /\ IF outputs = <<>>
       THEN pc' = "aborted" /\ updates' = <<>> /\ delta_signal' = delta_signal
       ELSE /\ pc' = "backward" /\ updates' = updates
            /\ delta_signal' = deriv(outputs[Len(outputs)].output,
                                     Chunks(targets, OutputCount)[ex + 1])
    /\ UNCHANGED <<layers, rate, epochs, inputs, targets, epoch, ex, calls, entry, pre>>
    /\ UNCHANGED <<outputs, visited, acc0>>
    /\ UNCHANGED callVars

(* The signal propagated through the layer before its steps are computed *)
BackwardStepPropagateFirst ==
    /\ pc = "backward"
    /\ Len(visited) < Len(layers)
    /\ LET i == Len(layers) - Len(visited)
           lo == outputs[i]
           nd == delta(layers[i], delta_signal, lo.inputs, lo.output)
           ws == weight_step(rate, layers[i], lo.inputs, nd.val)
           aw == add_mut(updates[i].ws, ws.val)
           bs == bias_step(rate, layers[i], nd.val)
           ab == add_mut(updates[i].bs, bs)
       IN  /\ Fits(delta_signal) /\ Fits(lo.output)
           /\ IF nd.tag = "Panic" \/ ws.tag = "Panic" \/ aw.tag = "Panic"
                 \/ ab.tag = "Panic"
              THEN /\ pc' = "aborted" /\ updates' = <<>>
                   /\ delta_signal' = delta_signal /\ visited' = visited
              ELSE /\ pc' = "backward"
                   /\ updates' = [updates EXCEPT ![i] = [ws |-> aw.val, bs |-> ab.val]]
                   /\ delta_signal' = nd.val
                   /\ visited' = Append(visited, i)
    /\ UNCHANGED <<layers, rate, epochs, inputs, targets, epoch, ex, calls, entry, pre>>
    /\ UNCHANGED <<outputs, acc0>>
    /\ UNCHANGED callVars

(* lines 87-98: one iteration of the backward loop.  The three reversed     *)
(* lists are equally long, so the iteration after Len(visited) others is on *)
(* layer Len(layers) - Len(visited), its LayerOut and its LayerUpdates.     *)
BackwardStep ==
    /\ pc = "backward"
    /\ Len(visited) < Len(layers)
    /\ LET i == Len(layers) - Len(visited)
           lo == outputs[i]
           ws == weight_step(rate, layers[i], lo.inputs, delta_signal)
           aw == add_mut(updates[i].ws, ws.val)
           bs == bias_step(rate, layers[i], delta_signal)
           ab == add_mut(updates[i].bs, bs)
           nd == delta(layers[i], delta_signal, lo.inputs, lo.output)
       IN  /\ Fits(delta_signal) /\ Fits(lo.output)
           /\ IF ws.tag = "Panic" \/ aw.tag = "Panic" \/ ab.tag = "Panic"
                 \/ nd.tag = "Panic"
              THEN /\ pc' = "aborted" /\ updates' = <<>>
                   /\ delta_signal' = delta_signal /\ visited' = visited
              ELSE /\ pc' = "backward"
                   /\ updates' = [updates EXCEPT ![i] = [ws |-> aw.val, bs |-> ab.val]]
                   /\ delta_signal' = nd.val
                   /\ visited' = Append(visited, i)
    /\ UNCHANGED <<layers, rate, epochs, inputs, targets, epoch, ex, calls, entry, pre>>
    /\ UNCHANGED <<outputs, acc0>>
    /\ UNCHANGED callVars

(* line 99: the backward loop is over, the pair is done *)
PairEnd ==
    /\ pc = "backward"
    /\ Len(visited) = Len(layers)
    /\ pc' = "examples"
    /\ ex' = ex + 1
    /\ UNCHANGED <<layers, rate, epochs, inputs, targets, epoch, updates, calls,
                   entry, pre>>
    /\ UNCHANGED passVars
    /\ UNCHANGED callVars

NextPass ==
    \/ TrainCallPass
    \/ EpochBegin
    \/ PairBegin
    \/ ForwardStep
    \/ ErrorDeriv
    \/ BackwardStep
    \/ PairEnd
    \/ EpochUpdate
    \/ TrainReturn

SpecPass == Init /\ [][NextPass]_vars

(* The pair being processed *)
PairInput == Chunks(inputs, InputCount)[ex + 1]
PairTarget == Chunks(targets, OutputCount)[ex + 1]

(* L, L-1, .., L-k+1 *)
ReverseOrder(L, k) == [j \in 1..k |-> L - j + 1]

(* C12: in the backward pass of a pair the layers are visited in the        *)
(* reverse of chain order; the cached LayerOut of layer i holds the forward *)
(* output of layer i-1 (the raw example for the first layer) and the        *)
(* layer's own output; delta_signal starts as loss.deriv(final output, t)   *)
(* and is, on arrival at layer i, the signal propagated through the layers  *)
(* after i.  A visit of layer i adds to layer i's accumulator alone the     *)
(* weight and bias steps computed from the signal as it arrived and the     *)
(* layer's cached inputs, and leaves in delta_signal that signal propagated *)
(* through layer i; it changes no layer.                                    *)
C12_BackwardPass ==
    /\ [](pc = "backward" =>
            /\ visited = ReverseOrder(Len(layers), Len(visited))
            /\ Len(outputs) = Len(layers)
            /\ \A i \in 1..Len(layers) :
                  /\ outputs[i].inputs = InputOf(layers, i, PairInput)
                  /\ outputs[i].output = OutputOf(layers, i, PairInput)
            /\ Len(visited) < Len(layers) =>
                  delta_signal = DeltaAt(layers, Len(layers) - Len(visited),
                                         PairInput, PairTarget))
    /\ [][(pc = "backward" /\ visited' # visited) =>
            /\ Len(visited') = Len(visited) + 1
            /\ LET i == visited'[Len(visited')]
                   xs == InputOf(layers, i, PairInput)
                   ys == OutputOf(layers, i, PairInput)
                   ws == weight_step(rate, layers[i], xs, delta_signal).val
                   bs == bias_step(rate, layers[i], delta_signal)
               IN  /\ i = (IF visited = <<>> THEN Len(layers)
                           ELSE visited[Len(visited)] - 1)
                   /\ \A k \in 1..Len(layers) : k # i => updates'[k] = updates[k]
                   /\ updates'[i].ws =
                         [j \in 1..Len(updates[i].ws) |-> updates[i].ws[j] + ws[j]]
                   /\ updates'[i].bs =
                         [j \in 1..Len(updates[i].bs) |-> updates[i].bs[j] + bs[j]]
                   /\ delta_signal' = delta(layers[i], delta_signal, xs, ys).val
                   /\ layers' = layers]_vars

(* The backward pass of the second pair over two Dense layers is complete:  *)
(* both accumulators held the first pair's steps and have changed.          *)
C12_Witness ==
    /\ pc = "backward"
    /\ ex = 1
    /\ visited = <<2, 1>>
    /\ layers[1].kind = "Dense" /\ layers[1].m = 2
    /\ layers[2].kind = "Dense" /\ layers[2].n = 2
    /\ Nonzero(acc0[1].ws) /\ Nonzero(acc0[2].ws)
    /\ Nonzero(acc0[1].bs)
    /\ updates[1].bs # acc0[1].bs
    /\ updates[2].ws # acc0[2].ws

(* The pair taken layer by layer ends with the accumulators its single      *)
(* step gives: Forward and Backward are these loops.                        *)
PassIsProcessExample ==
    (pc = "backward" /\ Len(visited) = Len(layers)) =>
        updates = ProcessExample(rate, layers, acc0, PairInput, PairTarget).val

====
